---- MODULE Spec2Model ----
(***************************************************************************)
(* Platform engineering API: the entity store (Service, Deployment), the   *)
(* HTTP handlers over it and the provisioning orchestrator of              *)
(* PlatformService, as a state machine.                                    *)
(*                                                                         *)
(* Every HTTP request occupies one slot of reqs from the moment its        *)
(* handler starts until its response has been taken (Respond).  A handler  *)
(* that awaits an external adapter is modelled one await at a time, so     *)
(* that concurrent requests interleave where the event loop lets them.     *)
(***************************************************************************)
EXTENDS Integers, FiniteSets, Sequences, TLC

\* ------------------------------------------------------------------ bounds
MaxServices == 2
MaxDeployments == 2
MaxRequests == 2
MaxOperations == 2
MaxClock == 2
MaxUpdateClock == 1

\* ------------------------------------------------------------------ inputs
Names == {"svc1", "svc2"}
\* the names a record can have: those it is created with and the one only a
\* rename gives it
StoredNames == Names \cup {"svc3"}
Slots == 1..MaxRequests
\* the slot the requests that await external adapters (provision, delete
\* service) run in: one of them at a time, with other requests beside it
OrchestrationSlots == {1}
ServiceIds == 1..(MaxServices + 1)
DeploymentIds == 1..(MaxDeployments + 1)

\* models/service.py: ServiceType, ServiceStatus and the column defaults
ServiceType == {"api", "web", "worker", "database", "cache"}
ServiceStatus == {"pending", "provisioning", "running", "failed", "deprecated"}
DefaultCicdStatus == "not_configured"
DefaultInfrastructureStatus == "not_provisioned"
DefaultMonitoringStatus == "not_configured"
DefaultDeploymentStatus == "pending"

\* the attributes of a Service row that the handlers below read or assign
StatusFields == {"status", "cicd_status", "infrastructure_status", "monitoring_status"}

\* the columns a provision call assigns to
SessionFields == StatusFields \cup {"deployment_url"}

\* deployment_url is NULL until the infrastructure sub-step sets it
NoUrl == "None"
DeploymentUrl(name) == "http://" \o name \o ".dev.platformdavid.com"

\* endpoints/services.py list_service_templates: template name -> service_type
ServiceTemplates == [t \in {"fastapi-api", "react-web", "celery-worker"} |->
                       CASE t = "fastapi-api" -> "api"
                         [] t = "react-web" -> "web"
                         [] t = "celery-worker" -> "worker"]

\* request inputs the model draws from
TemplateInputs == {"fastapi-api", "no-such-template"}
Unset == "<unset>"

\* stands for a timestamp that is not there: a NULL updated_at column, a
\* "completed_at" key an operation record does not have yet
NoTime == -1

\* schemas/service.py ServiceUpdate and schemas/deployment.py
\* DeploymentUpdate: the fields an update request is parsed into; any other
\* key of the request body is dropped
ServiceUpdateFields_WithStatus ==
  {"name", "team", "service_type", "environment", "description", "tags", "configuration",
   "infrastructure_config", "monitoring_config", "status"}
ServiceUpdateFields == {"name", "team", "service_type", "environment", "description",
                        "tags", "configuration", "infrastructure_config",
                        "monitoring_config"}
DeploymentUpdateFields == {"name", "team", "environment", "service_type",
                           "configuration", "status"}

\* a parse that keeps every key of the body, known to the schema or not
UpdateData_NoSchema(body, fields) ==
  [f \in {g \in DOMAIN body : body[g] # Unset} |-> body[f]]

\* service_in.dict(exclude_unset=True): the schema's fields the body sets
UpdateData(body, fields) ==
  [f \in {g \in DOMAIN body \cap fields : body[g] # Unset} |-> body[f]]

\* the methods class PlatformService defines
PlatformServiceMethods == {"create_service", "provision_service", "_provision_cicd",
                           "_provision_infrastructure", "_provision_monitoring",
                           "get_service_by_id", "get_services_by_team",
                           "get_all_services", "update_service", "delete_service"}

VARIABLES services, deployments, reqs, instances, tasks, now

vars == <<services, deployments, reqs, instances, tasks, now>>

\* the entity store and the requests in flight
storeVars == <<services, deployments, reqs>>

\* the InfrastructureService instances, their background tasks and the clock
trackerVars == <<instances, tasks, now>>

\* ------------------------------------------------------------------ store
Idle == [kind |-> "idle", pc |-> "idle"]

\* variant: a table without the unique constraint on name
NameUnique_NoConstraint(table, id, name) == TRUE

\* Column(String, unique=True) on name: the row `id` may carry `name` only if
\* no other row of the table does
NameUnique(table, id, name) == \A j \in DOMAIN table : j # id => table[j].name # name

\* INTEGER PRIMARY KEY of the configured SQLite database: largest id + 1
NextId(table) == IF DOMAIN table = {} THEN 1
                 ELSE (CHOOSE m \in DOMAIN table : \A j \in DOMAIN table : j <= m) + 1

Insert(table, row) == [j \in DOMAIN table \cup {NextId(table)} |->
                         IF j \in DOMAIN table THEN table[j] ELSE row]

Remove(table, id) == [j \in DOMAIN table \ {id} |-> table[j]]

ByName(table, name) == {j \in DOMAIN table : table[j].name = name}

\* a finished handler: the response waits in the slot until it is taken
Done(kind, key, code, present, changed) ==
  [kind |-> kind, pc |-> "done", key |-> key, code |-> code,
   present |-> present, changed |-> changed, calls |-> {}]

\* a response is taken as soon as its handler has finished: nothing else
\* happens while one is waiting in a slot
Quiet == \A q \in Slots : reqs[q].pc # "done"

Respond(r) ==
  /\ reqs[r].pc = "done"
  /\ reqs' = [reqs EXCEPT ![r] = Idle]
  /\ UNCHANGED <<services, deployments, trackerVars>>

\* a request starts in slot r with record rec
Start(rs, r, rec) == [rs EXCEPT ![r] = rec]

\* slot r can take a new request: it is empty and the slots below it are busy
\* (which empty slot a request lands in is immaterial)
Free(r) ==
  /\ Quiet
  /\ reqs[r].pc = "idle"
  /\ \A q \in Slots : q < r => reqs[q].pc # "idle"

\* request r is in flight at step pc of handler kind
At(r, kind, pc) == Quiet /\ reqs[r].kind = kind /\ reqs[r].pc = pc

\* ---------------------------------------------------------- Service CRUD
\* PlatformService.create_service: INSERT with status PENDING; the column
\* defaults fill the three sub-statuses
NewService(name, stype) ==
  [name |-> name, service_type |-> stype, status |-> "pending",
   cicd_status |-> DefaultCicdStatus,
   infrastructure_status |-> DefaultInfrastructureStatus,
   monitoring_status |-> DefaultMonitoringStatus,
   deployment_url |-> NoUrl,
   updated_at |-> NoTime]

PlatformService_create_service(r, kind, name, stype) ==
  IF NameUnique(services, 0, name)
  THEN /\ services' = Insert(services, NewService(name, stype))
       /\ reqs' = Start(reqs, r, Done(kind, name, 200, FALSE, TRUE))
  ELSE \* IntegrityError out of commit: unhandled, 500, transaction rolled back
       /\ services' = services
       /\ reqs' = Start(reqs, r, Done(kind, name, 500, TRUE, FALSE))

\* POST /services/
create_service(r, name, stype) ==
  /\ Free(r)
  /\ "get_service_by_name" \in PlatformServiceMethods => NextId(services) <= MaxServices
  /\ IF "get_service_by_name" \notin PlatformServiceMethods
     THEN \* AttributeError at the first statement of the handler: 500
          /\ reqs' = Start(reqs, r, Done("create_service", name, 500,
                                         ByName(services, name) # {}, FALSE))
          /\ services' = services
     ELSE IF ByName(services, name) # {}
          THEN /\ reqs' = Start(reqs, r, Done("create_service", name, 400, TRUE, FALSE))
               /\ services' = services
          ELSE PlatformService_create_service(r, "create_service", name, stype)
  /\ UNCHANGED <<deployments, trackerVars>>

\* POST /services/from-template/{template_name}
create_service_from_template(r, template_name, name) ==
  /\ Free(r)
  /\ NextId(services) <= MaxServices \/ ByName(services, name) # {}
  /\ IF template_name \notin DOMAIN ServiceTemplates
     THEN /\ reqs' = Start(reqs, r, Done("create_service_from_template", name, 404,
                             ByName(services, name) # {}, FALSE))
          /\ services' = services
     ELSE PlatformService_create_service(r, "create_service_from_template", name,
                                         ServiceTemplates[template_name])
  /\ UNCHANGED <<deployments, trackerVars>>

\* GET /services/{service_id}
read_service(r, id) ==
  /\ Free(r)
  /\ reqs' = Start(reqs, r, Done("read_service", id,
                                 IF id \in DOMAIN services THEN 200 ELSE 404,
                                 id \in DOMAIN services, FALSE))
  /\ UNCHANGED <<services, deployments, trackerVars>>

\* PlatformService.update_service: setattr for every field of update_data
ApplyUpdate(row, upd) ==
  [f \in DOMAIN row |-> IF f \in DOMAIN upd THEN upd[f] ELSE row[f]]

\* updated_at = Column(..., onupdate=func.now()): set by the UPDATE the flush
\* emits, and the flush emits one only if an attribute has a new value
Touched(row, old, t) == IF row # old THEN [row EXCEPT !.updated_at = t] ELSE row

\* the answer of an update handler; it carries the request body and the
\* table as the handler found it
UpdateDone(kind, key, code, present, changed, body, before) ==
  [kind |-> kind, pc |-> "done", key |-> key, code |-> code, present |-> present,
   changed |-> changed, calls |-> {}, body |-> body, before |-> before]

\* PUT /services/{service_id}
update_service(r, id, upd) ==
  /\ Free(r)
  /\ IF id \notin DOMAIN services
     THEN /\ reqs' = Start(reqs, r, UpdateDone("update_service", id, 404, FALSE, FALSE,
                                                upd, services))
          /\ services' = services
     ELSE LET row == ApplyUpdate(services[id], UpdateData(upd, ServiceUpdateFields)) IN
          IF NameUnique(services, id, row.name)
          THEN /\ services' = [services EXCEPT ![id] = Touched(row, @, now)]
               /\ reqs' = Start(reqs, r, UpdateDone("update_service", id, 200, TRUE,
                                                    services'[id] # services[id],
                                                    upd, services))
          ELSE \* IntegrityError out of commit: unhandled, 500, rolled back
               /\ services' = services
               /\ reqs' = Start(reqs, r, UpdateDone("update_service", id, 500, TRUE, FALSE,
                                                    upd, services))
  /\ UNCHANGED <<deployments, trackerVars>>

\* -------------------------------------------------------- Deployment CRUD
\* variant: a create handler that goes to the INSERT without looking the
\* name up
create_deployment_NoLookup(r, name) ==
  /\ Free(r)
  /\ reqs' = Start(reqs, r, [kind |-> "create_deployment", pc |-> "insert", key |-> name,
                             present |-> ByName(deployments, name) # {}])
  /\ UNCHANGED <<services, deployments, trackerVars>>

\* POST /deployments/: get_deployment_by_name, then the conflict answer or
\* on to DeploymentService.create_deployment
create_deployment(r, name) ==
  /\ Free(r)
  /\ IF ByName(deployments, name) # {}
     THEN reqs' = Start(reqs, r, Done("create_deployment", name, 400, TRUE, FALSE))
     ELSE reqs' = Start(reqs, r, [kind |-> "create_deployment", pc |-> "insert", key |-> name,
                                  present |-> ByName(deployments, name) # {}])
  /\ UNCHANGED <<services, deployments, trackerVars>>

\* DeploymentService.create_deployment: INSERT with status "pending"
DeploymentService_create_deployment(r) ==
  /\ At(r, "create_deployment", "insert")
  /\ NextId(deployments) <= MaxDeployments \/ ByName(deployments, reqs[r].key) # {}
  /\ IF NameUnique(deployments, 0, reqs[r].key)
     THEN /\ deployments' = Insert(deployments,
                                   [name |-> reqs[r].key, status |-> DefaultDeploymentStatus,
                                    updated_at |-> NoTime])
          /\ reqs' = [reqs EXCEPT ![r] = Done("create_deployment", reqs[r].key, 200,
                                                reqs[r].present, TRUE)]
     ELSE \* lost the race to another create: IntegrityError, unhandled, 500
          /\ deployments' = deployments
          /\ reqs' = [reqs EXCEPT ![r] = Done("create_deployment", reqs[r].key, 500,
                                                reqs[r].present, FALSE)]
  /\ UNCHANGED <<services, trackerVars>>

\* GET /deployments/{deployment_id}
read_deployment(r, id) ==
  /\ Free(r)
  /\ reqs' = Start(reqs, r, Done("read_deployment", id,
                                 IF id \in DOMAIN deployments THEN 200 ELSE 404,
                                 id \in DOMAIN deployments, FALSE))
  /\ UNCHANGED <<services, deployments, trackerVars>>

\* PUT /deployments/{deployment_id}
update_deployment(r, id, upd) ==
  /\ Free(r)
  /\ IF id \notin DOMAIN deployments
     THEN /\ reqs' = Start(reqs, r, UpdateDone("update_deployment", id, 404, FALSE, FALSE,
                                                upd, deployments))
          /\ deployments' = deployments
     ELSE LET row == ApplyUpdate(deployments[id], UpdateData(upd, DeploymentUpdateFields)) IN
          IF NameUnique(deployments, id, row.name)
          THEN /\ deployments' = [deployments EXCEPT ![id] = Touched(row, @, now)]
               /\ reqs' = Start(reqs, r, UpdateDone("update_deployment", id, 200, TRUE,
                                                    deployments'[id] # deployments[id],
                                                    upd, deployments))
          ELSE /\ deployments' = deployments
               /\ reqs' = Start(reqs, r, UpdateDone("update_deployment", id, 500, TRUE,
                                                    FALSE, upd, deployments))
  /\ UNCHANGED <<services, trackerVars>>

\* DELETE /deployments/{deployment_id}
delete_deployment(r, id) ==
  /\ Free(r)
  /\ IF id \notin DOMAIN deployments
     THEN /\ reqs' = Start(reqs, r, Done("delete_deployment", id, 404, FALSE, FALSE))
          /\ deployments' = deployments
     ELSE /\ deployments' = Remove(deployments, id)
          /\ reqs' = Start(reqs, r, Done("delete_deployment", id, 200, TRUE, TRUE))
  /\ UNCHANGED <<services, trackerVars>>

\* a status write that only moves a deployment that has not started yet
DeploymentService_update_deployment_status_OnlyPending(table, id, status, t) ==
  IF id \in DOMAIN table /\ table[id].status = "pending"
  THEN [table EXCEPT ![id] = Touched([table[id] EXCEPT !.status = status], table[id], t)]
  ELSE table

\* DeploymentService.update_deployment_status: looks the deployment up again
\* and, if it is still there, stores the status and commits
DeploymentService_update_deployment_status(table, id, status, t) ==
  IF id \in DOMAIN table
  THEN [table EXCEPT ![id] = Touched([table[id] EXCEPT !.status = status], table[id], t)]
  ELSE table

\* POST /deployments/{deployment_id}/trigger: the lookup
trigger_deployment(r, id) ==
  /\ Free(r)
  /\ IF id \notin DOMAIN deployments
     THEN reqs' = Start(reqs, r, Done("trigger_deployment", id, 404, FALSE, FALSE))
     ELSE reqs' = Start(reqs, r, [kind |-> "trigger_deployment", pc |-> "update", key |-> id,
                                  present |-> TRUE])
  /\ UNCHANGED <<services, deployments, trackerVars>>

\* POST /deployments/{deployment_id}/trigger: the status write and the
\* answer, which does not look at what update_deployment_status returned
update_deployment_status(r) ==
  /\ At(r, "trigger_deployment", "update")
  /\ deployments' = DeploymentService_update_deployment_status(deployments, reqs[r].key,
                                                               "running", now)
  /\ reqs' = [reqs EXCEPT ![r] =
                [kind |-> "trigger_deployment", pc |-> "done", key |-> reqs[r].key,
                 code |-> 200, present |-> TRUE, changed |-> deployments' # deployments,
                 calls |-> {}, status |-> "running", before |-> deployments]]
  /\ UNCHANGED <<services, trackerVars>>

\* ------------------------------------------------------ external adapters
\* what the outside world does to one adapter call: the tool succeeds, the
\* tool reports failure (non-zero exit, HTTP error status), or the call itself
\* raises (tool missing, connection refused)
ExternalOutcomes == {"ok", "fails", "raises"}

\* variant: a workflow generator with a branch for every service type
WorkflowTypes_All == ServiceType

\* GitHubActionsService._generate_workflow_config: the service types it has a
\* branch for; any other type raises ValueError before a request is sent
WorkflowTypes == {"api", "web", "worker"}

\* GitHubActionsService.create_workflow: raise_for_status() and transport
\* errors propagate to the caller
GithubCreateWorkflow(o) == IF o = "ok" THEN "ok" ELSE "err"

\* TerraformService.create_infrastructure: every failure is caught and
\* returned as {"status": "error"}
TerraformCreateInfrastructure(o) == IF o = "ok" THEN "success" ELSE "error"

\* KubernetesService.create_deployment / _apply_manifests: returncode 0 is
\* "success", anything else and every exception is "error"
KubernetesCreateDeployment(o) == IF o = "ok" THEN "success" ELSE "error"

\* KubernetesService.delete_deployment: the return codes of kubectl are not
\* looked at; an exception is returned as {"status": "error"}
KubernetesDeleteDeployment(o) == IF o = "raises" THEN "error" ELSE "deleted"

\* TerraformService.destroy_infrastructure
TerraformDestroyInfrastructure(o) == IF o = "ok" THEN "success" ELSE "error"

\* ------------------------------------------------------ session and commit
\* attributes of the session's Service object that differ from what the
\* session last read or wrote: the columns the next flush puts in its UPDATE
Dirty(q) == {f \in SessionFields : q.obj[f] # q.snap[f]}

\* db.commit() succeeds: nothing to flush, or the UPDATE finds the row
Flushes(q, table) == Dirty(q) = {} \/ q.sid \in DOMAIN table

\* the table after a successful db.commit()
Flushed(q, table) ==
  IF Dirty(q) = {} THEN table
  ELSE [table EXCEPT ![q.sid] =
          [f \in DOMAIN @ |-> IF f \in Dirty(q) THEN q.obj[f]
                              ELSE IF f = "updated_at" THEN now
                              ELSE @[f]]]

\* the slots after request r committed q: the session's snapshot of the row
\* is brought up to date
Committed(r, q) ==
  [reqs EXCEPT ![r] = [q EXCEPT !.snap = q.obj, !.changed = @ \/ Dirty(q) # {}]]

\* a commit that raised StaleDataError: the flush is rolled back and the
\* pending attribute changes are gone
RolledBack(q) == [q EXCEPT !.obj = q.snap]

\* ------------------------------------------------------------ orchestrator
ProvisionConfigs == [provision_cicd : BOOLEAN, provision_infrastructure : BOOLEAN,
                     provision_monitoring : BOOLEAN]

SubSteps == {"cicd", "infra", "mon"}
SubFinished == {"off", "done_ok", "done_err", "done_errV"}

\* variant: a task list that takes every sub-step whatever the flags say
Tasks_IgnoringFlags(cfg) == [cicd |-> "todo", infra |-> "todo", mon |-> "todo"]

\* the task list provision_service builds from the three flags
Tasks(cfg) == [cicd |-> IF cfg.provision_cicd THEN "todo" ELSE "off",
               infra |-> IF cfg.provision_infrastructure THEN "todo" ELSE "off",
               mon |-> IF cfg.provision_monitoring THEN "todo" ELSE "off"]

\* what the adapters a provision call has called returned: nothing yet
NoResults == [a \in {} |-> a]

\* the results with those of one more sub-step
Noted(results, outs) ==
  [a \in DOMAIN results \cup DOMAIN outs |-> IF a \in DOMAIN outs THEN outs[a] ELSE results[a]]

\* variant: a provision call that is refused while another call for the
\* same service is under way
provision_service_OneAtATime(r, sid, cfg) ==
  /\ Free(r)
  /\ IF sid \notin DOMAIN services
     THEN reqs' = Start(reqs, r, Done("provision_service", sid, 404, FALSE, FALSE))
     ELSE IF \E q \in Slots : reqs[q].kind = "provision_service" /\ reqs[q].key = sid
     THEN reqs' = Start(reqs, r, Done("provision_service", sid, 409, TRUE, FALSE))
     ELSE reqs' = Start(reqs, r, [kind |-> "provision_service", pc |-> "set_provisioning",
                      key |-> sid, sid |-> sid, cfg |-> cfg, present |-> TRUE,
                      changed |-> FALSE,
                      sub |-> [k \in SubSteps |-> "off"],
                      obj |-> services[sid], snap |-> services[sid], orig |-> services[sid],
                      calls |-> {}, results |-> NoResults, exc |-> "none", code |-> 0])
  /\ UNCHANGED <<services, deployments, trackerVars>>

\* POST /services/{service_id}/provision, up to get_service_by_id
provision_service(r, sid, cfg) ==
  /\ Free(r)
  /\ IF sid \notin DOMAIN services
     THEN \* ValueError("Service ... not found") -> 404
          reqs' = Start(reqs, r, Done("provision_service", sid, 404, FALSE, FALSE))
     ELSE reqs' = Start(reqs, r, [kind |-> "provision_service", pc |-> "set_provisioning",
                      key |-> sid, sid |-> sid, cfg |-> cfg, present |-> TRUE,
                      changed |-> FALSE,
                      sub |-> [k \in SubSteps |-> "off"],
                      obj |-> services[sid], snap |-> services[sid], orig |-> services[sid],
                      calls |-> {}, results |-> NoResults, exc |-> "none", code |-> 0])
  /\ UNCHANGED <<services, deployments, trackerVars>>

\* the request as it stands when provision_service and the endpoint are
\* through: the session is closed
Ended(q, exc, code) ==
  [q EXCEPT !.pc = "done", !.exc = exc, !.code = code, !.obj = q.orig, !.snap = q.orig]

\* service.status = PROVISIONING; await db.commit(); then the task list
SetProvisioning(r) ==
  /\ At(r, "provision_service", "set_provisioning")
  /\ LET q == [reqs[r] EXCEPT !.obj.status = "provisioning"] IN
     IF Flushes(q, services)
     THEN /\ services' = Flushed(q, services)
          /\ reqs' = Committed(r, [q EXCEPT !.pc = "gather", !.sub = Tasks(q.cfg)])
     ELSE \* the commit raises outside the try block: unhandled by
          \* provision_service, 500 from the endpoint
          /\ services' = services
          /\ reqs' = [reqs EXCEPT ![r] = Ended(q, "Exception", 500)]
  /\ UNCHANGED <<deployments, trackerVars>>

InGather(r) == At(r, "provision_service", "gather")

\* variant: a sub-step whose except branch re-raises without setting its
\* sub-status to "failed"
SubStepCommit_NoFailedMark(r, k, res, calls, outs, field, okval) ==
  LET q == [reqs[r] EXCEPT !.obj[field] = IF res = "ok" THEN okval ELSE @,
                           !.obj.deployment_url =
                              IF res = "ok" /\ field = "infrastructure_status"
                              THEN DeploymentUrl(reqs[r].obj.name) ELSE @,
                           !.calls = @ \cup calls,
                           !.results = Noted(@, outs)] IN
  /\ services' = Flushed(q, services)
  /\ reqs' = Committed(r, [q EXCEPT !.sub[k] = "done_" \o res])

\* the tail of a sub-step whose adapter calls ended with `res` after making
\* `calls`: on "ok" the sub-status takes okval, in the except branch it
\* takes "failed"; either way the sub-step commits. The infrastructure
\* sub-step sets deployment_url together with "provisioned". `outs` is what
\* the adapters returned
SubStepCommit(r, k, res, calls, outs, field, okval) ==
  LET q == [reqs[r] EXCEPT !.obj[field] = IF res = "ok" THEN okval ELSE "failed",
                           !.obj.deployment_url =
                              IF res = "ok" /\ field = "infrastructure_status"
                              THEN DeploymentUrl(reqs[r].obj.name) ELSE @,
                           !.calls = @ \cup calls,
                           !.results = Noted(@, outs)] IN
  IF Flushes(q, services)
  THEN /\ services' = Flushed(q, services)
       /\ reqs' = Committed(r, [q EXCEPT !.sub[k] = "done_" \o res])
  ELSE \* StaleDataError: the except branch sets "failed" and its own commit
       \* raises again
       /\ services' = services
       /\ reqs' = [reqs EXCEPT ![r] = [RolledBack(q) EXCEPT !.sub[k] = "done_err"]]

\* PlatformService._provision_cicd
_provision_cicd(r) ==
  /\ InGather(r) /\ reqs[r].sub.cicd = "todo"
  /\ \E o \in ExternalOutcomes :
       IF reqs[r].obj.service_type \notin WorkflowTypes
       THEN SubStepCommit(r, "cicd", "errV", {}, NoResults, "cicd_status", "configured")
       ELSE SubStepCommit(r, "cicd", GithubCreateWorkflow(o), {"github"},
                          [github |-> GithubCreateWorkflow(o)],
                          "cicd_status", "configured")
  /\ UNCHANGED <<deployments, trackerVars>>

\* variant: an infrastructure sub-step that asks Kubernetes whatever
\* Terraform returned
_provision_infrastructure_BothAlways(r) ==
  /\ InGather(r) /\ reqs[r].sub.infra = "todo"
  /\ \E o1, o2 \in ExternalOutcomes :
       LET tf == TerraformCreateInfrastructure(o1)
           k8s == KubernetesCreateDeployment(o2) IN
       SubStepCommit(r, "infra",
                     IF tf = "success" /\ k8s = "success" THEN "ok" ELSE "err",
                     {"terraform", "kubernetes"},
                     [terraform |-> tf, kubernetes |-> k8s],
                     "infrastructure_status", "provisioned")
  /\ UNCHANGED <<deployments, trackerVars>>

\* PlatformService._provision_infrastructure
_provision_infrastructure(r) ==
  /\ InGather(r) /\ reqs[r].sub.infra = "todo"
  /\ \E o1, o2 \in ExternalOutcomes :
       LET tf == TerraformCreateInfrastructure(o1)
           k8s == KubernetesCreateDeployment(o2) IN
       IF tf = "success"
       THEN SubStepCommit(r, "infra", IF k8s = "success" THEN "ok" ELSE "err",
                          {"terraform", "kubernetes"},
                          [terraform |-> tf, kubernetes |-> k8s],
                          "infrastructure_status", "provisioned")
       ELSE SubStepCommit(r, "infra", "err", {"terraform"}, [terraform |-> tf],
                          "infrastructure_status", "provisioned")
  /\ UNCHANGED <<deployments, trackerVars>>

\* PlatformService._provision_monitoring
_provision_monitoring(r) ==
  /\ InGather(r) /\ reqs[r].sub.mon = "todo"
  /\ SubStepCommit(r, "mon", "ok", {}, NoResults, "monitoring_status", "configured")
  /\ UNCHANGED <<deployments, trackerVars>>

\* variant: only the result of the first task is looked at
FirstException_FirstTaskOnly(sub) ==
  IF sub.cicd = "done_errV" THEN "ValueError"
  ELSE IF sub.cicd = "done_err" THEN "Exception"
  ELSE "none"

\* the first exception in the order of the task list; only the CI/CD task
\* can end with a ValueError
FirstException(sub) ==
  IF sub.cicd = "done_errV" THEN "ValueError"
  ELSE IF \E k \in SubSteps : sub[k] = "done_err" THEN "Exception"
  ELSE "none"

\* variant: a gather without return_exceptions, which returns at the first
\* exception while the other tasks are still to run
GatherReturned_AtFirstException(sub) ==
  \/ \A k \in SubSteps : sub[k] \in SubFinished
  \/ \E k \in SubSteps : sub[k] \in {"done_err", "done_errV"}

\* asyncio.gather(*tasks, return_exceptions=True) has returned
GatherReturned(sub) == \A k \in SubSteps : sub[k] \in SubFinished

\* the endpoint's answer to what provision_service raised
ProvisionCode(exc) == CASE exc = "none" -> 200
                        [] exc = "ValueError" -> 404
                        [] OTHER -> 500

\* variant: a provision call whose except branch re-raises without storing
\* FAILED
ProvisionFinish_NoFailedStatus(r) ==
  /\ InGather(r) /\ GatherReturned(reqs[r].sub)
  /\ LET e == FirstException(reqs[r].sub)
         q == [reqs[r] EXCEPT !.obj.status = IF e = "none" THEN "running" ELSE @] IN
     /\ services' = Flushed(q, services)
     /\ reqs' = [Committed(r, q) EXCEPT
                   ![r] = Ended([q EXCEPT !.changed = @ \/ Dirty(q) # {}],
                                e, ProvisionCode(e))]
  /\ UNCHANGED <<deployments, trackerVars>>

\* PlatformService.provision_service after the gather: RUNNING if no result
\* is an exception, else FAILED and re-raise; then the endpoint's answer
ProvisionFinish(r) ==
  /\ InGather(r) /\ GatherReturned(reqs[r].sub)
  /\ LET e == FirstException(reqs[r].sub)
         q == [reqs[r] EXCEPT !.obj.status = IF e = "none" THEN "running" ELSE "failed"] IN
     IF Flushes(q, services)
     THEN /\ services' = Flushed(q, services)
          /\ reqs' = [Committed(r, q) EXCEPT
                        ![r] = Ended([q EXCEPT !.changed = @ \/ Dirty(q) # {}],
                                     e, ProvisionCode(e))]
     ELSE \* the commit raises; the except branch's commit raises as well
          /\ services' = services
          /\ reqs' = [reqs EXCEPT ![r] = Ended(q, "Exception", 500)]
  /\ UNCHANGED <<deployments, trackerVars>>

\* ---------------------------------------------------------- delete service
\* variant: a delete that starts the cleanup without looking the id up
delete_service_NoLookup(r, sid) ==
  /\ Free(r)
  /\ reqs' = Start(reqs, r, [kind |-> "delete_service", pc |-> "cleanup", key |-> sid,
                      sid |-> sid, present |-> sid \in DOMAIN services,
                      changed |-> FALSE, calls |-> {},
                      k8s |-> "todo", tf |-> "todo", code |-> 0])
  /\ UNCHANGED <<services, deployments, trackerVars>>

\* DELETE /services/{service_id}, up to get_service_by_id
delete_service(r, sid) ==
  /\ Free(r)
  /\ IF sid \notin DOMAIN services
     THEN reqs' = Start(reqs, r, Done("delete_service", sid, 404, FALSE, FALSE))
     ELSE reqs' = Start(reqs, r, [kind |-> "delete_service", pc |-> "cleanup", key |-> sid,
                      sid |-> sid, present |-> TRUE, changed |-> FALSE, calls |-> {},
                      k8s |-> "todo", tf |-> "todo", code |-> 0])
  /\ UNCHANGED <<services, deployments, trackerVars>>

InCleanup(r) == At(r, "delete_service", "cleanup")

\* the first cleanup task: kubernetes_service.delete_deployment
DeleteKubernetes(r) ==
  /\ InCleanup(r) /\ reqs[r].k8s = "todo"
  /\ \E o \in ExternalOutcomes :
       reqs' = [reqs EXCEPT ![r].k8s = KubernetesDeleteDeployment(o),
                            ![r].calls = @ \cup {"kubernetes"}]
  /\ UNCHANGED <<services, deployments, trackerVars>>

\* the second cleanup task: terraform_service.destroy_infrastructure
DeleteTerraform(r) ==
  /\ InCleanup(r) /\ reqs[r].tf = "todo"
  /\ \E o \in ExternalOutcomes :
       reqs' = [reqs EXCEPT ![r].tf = TerraformDestroyInfrastructure(o),
                            ![r].calls = @ \cup {"terraform"}]
  /\ UNCHANGED <<services, deployments, trackerVars>>

\* asyncio.gather(*cleanup_tasks, return_exceptions=True) has returned
CleanupReturned(q) == q.k8s # "todo" /\ q.tf # "todo"

\* variant: a delete that keeps the record when a cleanup call ended in an
\* error
DeleteFinish_OnlyIfClean(r) ==
  /\ reqs[r].kind = "delete_service" /\ reqs[r].pc = "cleanup"
  /\ reqs[r].k8s # "todo" /\ reqs[r].tf # "todo"
  /\ LET clean == reqs[r].k8s # "error" /\ reqs[r].tf # "error" IN
     /\ services' = IF clean THEN Remove(services, reqs[r].sid) ELSE services
     /\ reqs' = [reqs EXCEPT ![r].pc = "done",
                             ![r].code = IF clean THEN 200 ELSE 500,
                             ![r].changed = clean]
  /\ UNCHANGED <<deployments, trackerVars>>

\* PlatformService.delete_service after the gather: db.delete, commit, True
DeleteFinish(r) ==
  /\ InCleanup(r) /\ CleanupReturned(reqs[r])
  /\ services' = Remove(services, reqs[r].sid)
  /\ reqs' = [reqs EXCEPT
                ![r].pc = "done", ![r].code = 200,
                ![r].changed = reqs[r].sid \in DOMAIN services]
  /\ UNCHANGED <<deployments, trackerVars>>

\* ------------------------------------------------------------ specification
EmptyTable == [j \in {} |-> j]

Init ==
  /\ services = EmptyTable
  /\ deployments = EmptyTable
  /\ reqs = [r \in Slots |-> Idle]
  /\ instances = EmptyTable
  /\ tasks = EmptyTable
  /\ now = 0

\* the stored rows carry values of the declared column types
TypeOK ==
  /\ \A i \in DOMAIN services :
        /\ services[i].service_type \in ServiceType
        /\ services[i].status \in ServiceStatus
        /\ services[i].name \in StoredNames
        /\ services[i].updated_at \in {NoTime} \cup 0..MaxClock
  /\ \A i \in DOMAIN deployments :
        /\ deployments[i].name \in StoredNames
        /\ deployments[i].updated_at \in {NoTime} \cup 0..MaxClock
  /\ DOMAIN services \subseteq ServiceIds
  /\ DOMAIN deployments \subseteq DeploymentIds

\* the request bodies the model sends
OrchNames == {"svc1"}
OrchUpdates == [name : {Unset}, service_type : {"api", "database"}, status : {"deprecated"}]
Renames == [name : Names \cup {Unset}]

\* ------------------------------------------------------ operation tracker
\* the clock counts ticks; datetime.utcnow() differences are turned into
\* hours by / 3600
TicksPerHour == 1

\* variant: an id source that hands the latest id out again
NextOperation_Recycled ==
  IF DOMAIN tasks = {} THEN Cardinality(DOMAIN tasks) + 1 ELSE Cardinality(DOMAIN tasks)

\* uuid.uuid4(): an id never issued before
OperationIds == 1..MaxOperations
NextOperation == Cardinality(DOMAIN tasks) + 1

\* InfrastructureService.__init__: self._active_operations = {}
InfrastructureService_init == EmptyTable

\* the instance a caller holds on to and uses for every call
SharedInstance == 0

\* variant: a record that is stamped with a completion time when it is made
RunningRecord_Stamped(call) ==
  [call |-> call, status |-> "running", started_at |-> now, completed_at |-> now,
   error |-> "None"]

\* the record provision_infrastructure_async / destroy_infrastructure_async
\* put in _active_operations before their try block, as far as the status,
\* the two times and the error go; "completed_at" is not a key of it yet
RunningRecord(call) ==
  [call |-> call, status |-> "running", started_at |-> now, completed_at |-> NoTime,
   error |-> "None"]

\* what `await self.terraform_service.<call>(...)` can come back with, as
\* far as the tracker is concerned: a result dict, with or without a
\* "message" key, or an exception
CallOutcomes ==
  { [kind |-> "return", status |-> "success", message |-> "done"],
    [kind |-> "return", status |-> "error", message |-> "terraform failed"],
    [kind |-> "return", status |-> "error", message |-> Unset],
    [kind |-> "raise", status |-> Unset, message |-> "boom"] }

\* what TerraformService.create_infrastructure / destroy_infrastructure come
\* back with: every exception is caught inside and returned as an error
TerraformServiceOutcomes ==
  { [kind |-> "return",
     status |-> TerraformCreateInfrastructure(o),
     message |-> IF o = "ok" THEN "done"
                 ELSE IF o = "fails" THEN "terraform failed"
                 ELSE "Failed to create infrastructure"] : o \in ExternalOutcomes }

\* variant: a coroutine without the except branch
Finished_NoExcept(rec, res, t) ==
  IF res.kind = "raise" THEN rec
  ELSE IF res.status = "success"
       THEN [rec EXCEPT !.status = "completed", !.completed_at = t]
       ELSE [rec EXCEPT !.status = "failed", !.completed_at = t, !.error = res.message]

\* the .update({...}) of the three ways out of the try block
Finished(rec, res, t) ==
  IF res.kind = "raise"
  THEN [rec EXCEPT !.status = "failed", !.completed_at = t, !.error = res.message]
  ELSE IF res.status = "success"
       THEN [rec EXCEPT !.status = "completed", !.completed_at = t]
       ELSE [rec EXCEPT !.status = "failed", !.completed_at = t,
                        !.error = IF res.message = Unset THEN "Unknown error"
                                  ELSE res.message]

\* a background task, or a direct call, of one of the two coroutines on
\* instance inst
NewTask(inst, call) ==
  [inst |-> inst, call |-> call, pc |-> "scheduled", raised |-> FALSE,
   res |-> [kind |-> "none"]]

Schedule(ts, inst, call) ==
  [j \in DOMAIN ts \cup {NextOperation} |-> IF j \in DOMAIN ts THEN ts[j] ELSE NewTask(inst, call)]

\* the coroutine of operation op up to its await: the record is written
TaskBegin(op) ==
  /\ Quiet
  /\ op \in DOMAIN tasks /\ tasks[op].pc = "scheduled"
  /\ LET i == tasks[op].inst IN
     instances' = [instances EXCEPT ![i] =
                     [j \in DOMAIN @ \cup {op} |->
                        IF j = op THEN RunningRecord(tasks[op].call) ELSE @[j]]]
  /\ tasks' = [tasks EXCEPT ![op].pc = "awaiting"]
  /\ UNCHANGED <<storeVars, now>>

\* variant: a coroutine that is run again after it has returned
TaskEnd_Retried(op, res) ==
  /\ Quiet
  /\ op \in DOMAIN tasks /\ tasks[op].pc \in {"awaiting", "returned"}
  /\ instances' = [instances EXCEPT ![tasks[op].inst][op] = Finished(@, res, now)]
  /\ tasks' = [tasks EXCEPT ![op].pc = "returned", ![op].res = res]
  /\ UNCHANGED <<storeVars, now>>

\* the coroutine of operation op from the await on: the Terraform call came
\* back with res
TaskEnd(op, res) ==
  /\ Quiet
  /\ op \in DOMAIN tasks /\ tasks[op].pc = "awaiting"
  /\ LET i == tasks[op].inst IN
     IF op \in DOMAIN instances[i]
     THEN /\ instances' = [instances EXCEPT ![i][op] = Finished(@, res, now)]
          /\ tasks' = [tasks EXCEPT ![op].pc = "returned", ![op].res = res]
     ELSE \* KeyError in the try block and again in the except branch
          /\ instances' = instances
          /\ tasks' = [tasks EXCEPT ![op].pc = "returned", ![op].res = res,
                                    ![op].raised = TRUE]
  /\ UNCHANGED <<storeVars, now>>

\* Python's None where a record is expected
NoOperation == [status |-> "None"]

\* InfrastructureService.get_operation_status: dict.get, None if absent
InfrastructureService_get_operation_status(ops, id) ==
  IF id \in DOMAIN ops THEN ops[id] ELSE NoOperation

\* InfrastructureService.list_operations: a copy of the dict
InfrastructureService_list_operations(ops) == ops

Terminal(rec) == rec.status \in {"completed", "failed"}

\* variant: a sweep that also takes the records exactly max_age_hours old
Expired_AtTheLimit(rec, t, h) == Terminal(rec) /\ (t - rec.completed_at) >= h * TicksPerHour

\* cleanup_completed_operations: the test that puts a record on the removal
\* list, age_hours > max_age_hours
Expired(rec, t, h) == Terminal(rec) /\ (t - rec.completed_at) > h * TicksPerHour

\* InfrastructureService.cleanup_completed_operations at time t: the dict it
\* leaves, the count it returns, and whether operation["completed_at"] raised
\* KeyError on the way
InfrastructureService_cleanup_completed_operations(ops, t, h) ==
  IF \E id \in DOMAIN ops : Terminal(ops[id]) /\ ops[id].completed_at = NoTime
  THEN [raised |-> TRUE, ops |-> ops, count |-> 0]
  ELSE LET gone == {id \in DOMAIN ops : Expired(ops[id], t, h)} IN
       [raised |-> FALSE, ops |-> [id \in DOMAIN ops \ gone |-> ops[id]],
        count |-> Cardinality(gone)]

\* the answer to a lookup of operation id in the dict ops
LookupAnswer(kind, ops, id) ==
  LET st == InfrastructureService_get_operation_status(ops, id) IN
  [kind |-> kind, pc |-> "done", key |-> id, code |-> IF st = NoOperation THEN 404 ELSE 200,
   body |-> st, raised |-> FALSE]

\* the answer to a listing of the dict ops
ListAnswer(kind, ops) ==
  [kind |-> kind, pc |-> "done", code |-> 200,
   body |-> InfrastructureService_list_operations(ops),
   count |-> Cardinality(DOMAIN InfrastructureService_list_operations(ops)),
   raised |-> FALSE]

\* the answer to a sweep of the dict ops
SweepAnswer(kind, ops, h) ==
  LET res == InfrastructureService_cleanup_completed_operations(ops, now, h) IN
  [kind |-> kind, pc |-> "done", key |-> h, code |-> IF res.raised THEN 500 ELSE 200,
   before |-> ops, after |-> res.ops, count |-> res.count, raised |-> res.raised]

\* variant: a handler that awaits the coroutine up to its Terraform call
\* before it answers
StartOperation_Awaited(r, kind, call) ==
  /\ Free(r)
  /\ NextOperation <= MaxOperations
  /\ instances' = [j \in DOMAIN instances \cup {NextOperation} |->
                     IF j \in DOMAIN instances THEN instances[j]
                     ELSE [k \in {NextOperation} |-> RunningRecord(call)]]
  /\ tasks' = [j \in DOMAIN tasks \cup {NextOperation} |->
                 IF j \in DOMAIN tasks THEN tasks[j]
                 ELSE [NewTask(NextOperation, call) EXCEPT !.pc = "awaiting"]]
  /\ reqs' = Start(reqs, r, [kind |-> kind, pc |-> "done", code |-> 200,
                             operation_id |-> NextOperation, status |-> "started"])
  /\ UNCHANGED <<services, deployments, now>>

\* POST /infrastructure/provision and POST /infrastructure/destroy: a new
\* InfrastructureService, a uuid, background_tasks.add_task, the response
StartOperation(r, kind, call) ==
  /\ Free(r)
  /\ NextOperation <= MaxOperations
  /\ instances' = [j \in DOMAIN instances \cup {NextOperation} |->
                     IF j \in DOMAIN instances THEN instances[j]
                     ELSE InfrastructureService_init]
  /\ tasks' = Schedule(tasks, NextOperation, call)
  /\ reqs' = Start(reqs, r, [kind |-> kind, pc |-> "done", code |-> 200,
                             operation_id |-> NextOperation, status |-> "started"])
  /\ UNCHANGED <<services, deployments, now>>

provision_infrastructure(r) == StartOperation(r, "provision_infrastructure", "provision")

destroy_infrastructure(r) == StartOperation(r, "destroy_infrastructure", "destroy")

\* GET /infrastructure/operations/{operation_id}: a new InfrastructureService
\* and get_operation_status on it
get_operation_status(r, id) ==
  /\ Free(r)
  /\ reqs' = Start(reqs, r, LookupAnswer("get_operation_status",
                                         InfrastructureService_init, id))
  /\ UNCHANGED <<services, deployments, trackerVars>>

\* GET /infrastructure/operations: a new InfrastructureService and
\* list_operations on it
list_operations(r) ==
  /\ Free(r)
  /\ reqs' = Start(reqs, r, ListAnswer("list_operations", InfrastructureService_init))
  /\ UNCHANGED <<services, deployments, trackerVars>>

\* DELETE /infrastructure/operations/cleanup: a new InfrastructureService and
\* cleanup_completed_operations on it
cleanup_operations(r, h) ==
  /\ Free(r)
  /\ reqs' = Start(reqs, r, SweepAnswer("cleanup_operations", InfrastructureService_init, h))
  /\ UNCHANGED <<services, deployments, trackerVars>>

\* the two coroutines called on the shared instance
provision_infrastructure_async ==
  /\ Quiet
  /\ NextOperation <= MaxOperations
  /\ tasks' = Schedule(tasks, SharedInstance, "provision")
  /\ UNCHANGED <<storeVars, instances, now>>

destroy_infrastructure_async ==
  /\ Quiet
  /\ NextOperation <= MaxOperations
  /\ tasks' = Schedule(tasks, SharedInstance, "destroy")
  /\ UNCHANGED <<storeVars, instances, now>>

\* get_operation_status, list_operations and cleanup_completed_operations
\* called on the shared instance
GetOperationStatus(r, id) ==
  /\ Free(r)
  /\ reqs' = Start(reqs, r, LookupAnswer("InfrastructureService.get_operation_status",
                                         instances[SharedInstance], id))
  /\ UNCHANGED <<services, deployments, trackerVars>>

ListOperations(r) ==
  /\ Free(r)
  /\ reqs' = Start(reqs, r, ListAnswer("InfrastructureService.list_operations",
                                       instances[SharedInstance]))
  /\ UNCHANGED <<services, deployments, trackerVars>>

CleanupCompletedOperations(r, h) ==
  /\ Free(r)
  /\ LET a == SweepAnswer("InfrastructureService.cleanup_completed_operations",
                          instances[SharedInstance], h) IN
     /\ reqs' = Start(reqs, r, a)
     /\ instances' = [instances EXCEPT ![SharedInstance] = a.after]
  /\ UNCHANGED <<services, deployments, tasks, now>>

\* time passes
Tick ==
  /\ Quiet
  /\ now < MaxClock
  /\ now' = now + 1
  /\ UNCHANGED <<storeVars, instances, tasks>>

\* the provisioning orchestrator and the service lifecycle around it
Next ==
  \/ \E r \in OrchestrationSlots :
       \/ \E i \in ServiceIds, c \in ProvisionConfigs : provision_service(r, i, c)
       \/ SetProvisioning(r)
       \/ _provision_cicd(r)
       \/ _provision_infrastructure(r)
       \/ _provision_monitoring(r)
       \/ ProvisionFinish(r)
       \/ \E i \in ServiceIds : delete_service(r, i)
       \/ DeleteKubernetes(r)
       \/ DeleteTerraform(r)
       \/ DeleteFinish(r)
  \/ \E r \in Slots :
       \/ \E t \in TemplateInputs, n \in OrchNames : create_service_from_template(r, t, n)
       \/ \E i \in ServiceIds, u \in OrchUpdates : update_service(r, i, u)
       \/ Respond(r)

Spec == Init /\ [][Next]_vars

\* the entity CRUD handlers of both entities
NextCrud ==
  \/ \E r \in Slots :
       \/ \E n \in Names, t \in {"api"} : create_service(r, n, t)
       \/ \E t \in TemplateInputs, n \in Names : create_service_from_template(r, t, n)
       \/ \E i \in ServiceIds : read_service(r, i)
       \/ \E i \in ServiceIds, u \in Renames : update_service(r, i, u)
       \/ \E n \in Names : create_deployment(r, n)
       \/ DeploymentService_create_deployment(r)
       \/ \E i \in DeploymentIds : read_deployment(r, i)
       \/ \E i \in DeploymentIds, u \in Renames : update_deployment(r, i, u)
       \/ \E i \in DeploymentIds : delete_deployment(r, i)
       \/ Respond(r)
  \/ \E r \in OrchestrationSlots :
       \/ \E i \in ServiceIds : delete_service(r, i)
       \/ DeleteKubernetes(r)
       \/ DeleteTerraform(r)
       \/ DeleteFinish(r)

SpecCrud == Init /\ [][NextCrud]_vars

\* the max_age_hours values the model sweeps with
MaxAgeHours == {0, 1}

\* the infrastructure router with its background tasks
NextInfra ==
  \/ \E r \in Slots :
       \/ provision_infrastructure(r)
       \/ destroy_infrastructure(r)
       \/ \E id \in OperationIds : get_operation_status(r, id)
       \/ list_operations(r)
       \/ \E h \in MaxAgeHours : cleanup_operations(r, h)
       \/ Respond(r)
  \/ \E op \in OperationIds :
       \/ TaskBegin(op)
       \/ \E res \in TerraformServiceOutcomes : TaskEnd(op, res)

SpecInfra == Init /\ [][NextInfra]_vars

\* class InfrastructureService by itself: one instance that takes every call
InitTracker ==
  /\ services = EmptyTable
  /\ deployments = EmptyTable
  /\ reqs = [r \in Slots |-> Idle]
  /\ instances = [i \in {SharedInstance} |-> InfrastructureService_init]
  /\ tasks = EmptyTable
  /\ now = 0

NextTracker ==
  \/ provision_infrastructure_async
  \/ destroy_infrastructure_async
  \/ \E op \in OperationIds :
       \/ TaskBegin(op)
       \/ \E res \in CallOutcomes : TaskEnd(op, res)
  \/ \E r \in Slots :
       \/ \E id \in OperationIds : GetOperationStatus(r, id)
       \/ ListOperations(r)
       \/ \E h \in MaxAgeHours : CleanupCompletedOperations(r, h)
       \/ Respond(r)
  \/ Tick

SpecTracker == InitTracker /\ [][NextTracker]_vars

\* PUT /services/{id} and PUT /deployments/{id} with bodies that set some
\* fields and leave others out; "status" is no field of ServiceUpdate
ServiceBodies ==
  { [name |-> "svc3", service_type |-> Unset, status |-> "running"],
    [name |-> Unset, service_type |-> "web", status |-> Unset],
    [name |-> "svc1", service_type |-> "web", status |-> Unset] }
DeploymentBodies ==
  { [name |-> "svc3", status |-> Unset],
    [name |-> Unset, status |-> "completed"],
    [name |-> "svc1", status |-> "completed"] }

\* the clock while records are updated
UpdateTick == now < MaxUpdateClock /\ Tick

NextUpdate ==
  \/ \E r \in Slots :
       \/ \E t \in {"fastapi-api"}, n \in Names : create_service_from_template(r, t, n)
       \/ \E i \in ServiceIds, u \in ServiceBodies : update_service(r, i, u)
       \/ \E n \in Names : create_deployment(r, n)
       \/ DeploymentService_create_deployment(r)
       \/ \E i \in DeploymentIds, u \in DeploymentBodies : update_deployment(r, i, u)
       \/ Respond(r)
  \/ UpdateTick

SpecUpdate == Init /\ [][NextUpdate]_vars

\* the deployment routes, with PUT bodies whose "status" is any string
StatusBodies ==
  { [name |-> "svc3", status |-> Unset],
    [name |-> Unset, status |-> "completed"],
    [name |-> Unset, status |-> "deployed"] }

NextDeploy ==
  \E r \in Slots :
    \/ \E n \in Names : create_deployment(r, n)
    \/ DeploymentService_create_deployment(r)
    \/ \E i \in DeploymentIds : read_deployment(r, i)
    \/ \E i \in DeploymentIds, u \in StatusBodies : update_deployment(r, i, u)
    \/ \E i \in DeploymentIds : trigger_deployment(r, i)
    \/ update_deployment_status(r)
    \/ \E i \in DeploymentIds : delete_deployment(r, i)
    \/ Respond(r)

SpecDeploy == Init /\ [][NextDeploy]_vars

\* provisioning with every request slot open to it: two calls for one
\* service can be under way at once, each with one sub-step enabled
RaceConfigs ==
  { [provision_cicd |-> TRUE, provision_infrastructure |-> FALSE,
     provision_monitoring |-> FALSE],
    [provision_cicd |-> FALSE, provision_infrastructure |-> FALSE,
     provision_monitoring |-> TRUE] }

NextRace ==
  \E r \in Slots :
    \/ \E n \in OrchNames : create_service_from_template(r, "fastapi-api", n)
    \/ \E i \in ServiceIds, c \in RaceConfigs : provision_service(r, i, c)
    \/ SetProvisioning(r)
    \/ _provision_cicd(r)
    \/ _provision_monitoring(r)
    \/ ProvisionFinish(r)
    \/ Respond(r)

SpecRace == Init /\ [][NextRace]_vars

\* provisioning under a fair event loop: a coroutine that can take its next
\* step again and again takes it, and so every adapter call that is awaited
\* returns or raises
NextFair ==
  \/ \E r \in OrchestrationSlots :
       \/ \E i \in ServiceIds, c \in ProvisionConfigs : provision_service(r, i, c)
       \/ SetProvisioning(r)
       \/ _provision_cicd(r)
       \/ _provision_infrastructure(r)
       \/ _provision_monitoring(r)
       \/ ProvisionFinish(r)
  \/ \E r \in Slots :
       \/ \E n \in OrchNames : create_service_from_template(r, "fastapi-api", n)
       \/ Respond(r)

Fairness ==
  /\ \A r \in Slots : WF_vars(Respond(r))
  /\ \A r \in OrchestrationSlots :
       /\ SF_vars(SetProvisioning(r))
       /\ SF_vars(_provision_cicd(r))
       /\ SF_vars(_provision_infrastructure(r))
       /\ SF_vars(_provision_monitoring(r))
       /\ SF_vars(ProvisionFinish(r))

SpecFair == Init /\ [][NextFair]_vars /\ Fairness

\* ---------------------------------------------------------------- listing
\* the rows of a table in the order a SELECT without ORDER BY reads them:
\* by primary key
RECURSIVE RowsFrom(_, _)
RowsFrom(table, i) ==
  IF \A j \in DOMAIN table : j < i THEN << >>
  ELSE (IF i \in DOMAIN table THEN <<table[i]>> ELSE << >>) \o RowsFrom(table, i + 1)

Rows(table) == RowsFrom(table, 1)

Min(a, b) == IF a <= b THEN a ELSE b

\* variant: a page that applies the limit and forgets the offset
Page_LimitOnly(rows, skip, limit) == SubSeq(rows, 1, Min(Len(rows), limit))

\* .offset(skip).limit(limit)
Page(rows, skip, limit) == SubSeq(rows, skip + 1, Min(Len(rows), skip + limit))

\* PlatformService.get_services_by_team and
\* DeploymentService.get_deployments_by_team
get_by_team(table, team, skip, limit) ==
  Page(SelectSeq(Rows(table), LAMBDA row : row.team = team), skip, limit)

\* PlatformService.get_all_services and DeploymentService.get_all_deployments
get_all(table, skip, limit) == Page(Rows(table), skip, limit)

\* the query parameters: team is absent, or any string; skip and limit are
\* absent (then 0 and 100) or given
DefaultSkip == 0
DefaultLimit == 100
Teams == {"t", "u", ""}
TeamParams == Teams \cup {Unset}
Skips == {DefaultSkip, 1}
Limits == {0, 1, DefaultLimit}

\* the answer of a list handler
ListDone(kind, team, skip, limit, items) ==
  [kind |-> kind, pc |-> "done", key |-> team, code |-> 200, present |-> TRUE,
   changed |-> FALSE, calls |-> {}, team |-> team, skip |-> skip, limit |-> limit,
   items |-> items]

\* `if team:` is false for an absent team and for the empty string
Truthy(team) == team # Unset /\ team # ""

\* GET /services/
read_services(r, team, skip, limit) ==
  /\ Free(r)
  /\ reqs' = Start(reqs, r, ListDone("read_services", team, skip, limit,
                                     IF Truthy(team)
                                     THEN get_by_team(services, team, skip, limit)
                                     ELSE get_all(services, skip, limit)))
  /\ UNCHANGED <<services, deployments, trackerVars>>

\* GET /deployments/
read_deployments(r, team, skip, limit) ==
  /\ Free(r)
  /\ reqs' = Start(reqs, r, ListDone("read_deployments", team, skip, limit,
                                     IF Truthy(team)
                                     THEN get_by_team(deployments, team, skip, limit)
                                     ELSE get_all(deployments, skip, limit)))
  /\ UNCHANGED <<services, deployments, trackerVars>>

\* a stored record with the team it was created for
OfTeam(row, team) ==
  [f \in DOMAIN row \cup {"team"} |-> IF f = "team" THEN team ELSE row[f]]

NameOf(i) == "svc" \o ToString(i)

\* the tables of up to n records of any teams
TablesOf(rows) ==
  UNION { { [i \in 1..k |-> OfTeam(rows[i], ts[i])] : ts \in [1..k -> Teams] } :
          k \in 0..Len(rows) }

ServiceRow(i) == NewService(NameOf(i), "api")
DeploymentRow(i) ==
  [name |-> NameOf(i), status |-> DefaultDeploymentStatus, updated_at |-> NoTime]

\* the list queries over any stored records
InitList ==
  /\ services \in TablesOf([i \in 1..MaxServices |-> ServiceRow(i)])
  /\ deployments \in TablesOf([i \in 1..MaxDeployments |-> DeploymentRow(i)])
  /\ reqs = [r \in Slots |-> Idle]
  /\ instances = EmptyTable
  /\ tasks = EmptyTable
  /\ now = 0

NextList ==
  \E r \in Slots :
    \/ \E t \in TeamParams, s \in Skips, l \in Limits : read_services(r, t, s, l)
    \/ \E t \in TeamParams, s \in Skips, l \in Limits : read_deployments(r, t, s, l)
    \/ \E i \in DeploymentIds : delete_deployment(r, i)
    \/ Respond(r)

SpecList == InitList /\ [][NextList]_vars

\* ------------------------------------------------------ template generators
\* config.py: the settings the adapters copy into themselves when built
aws_region == "eu-west-2"
k8s_namespace == "platform-engineering"
container_registry_url == "ghcr.io/platformdavid"

\* variant: a workflow that carries the time it was generated at
GitHubActionsService_generate_workflow_config_Stamped(service_name, team, service_type) ==
  [workflow |-> service_type, SERVICE_NAME |-> service_name, TEAM |-> team,
   generated_at |-> now]

\* GitHubActionsService._generate_workflow_config: one text per branch, with
\* the name and the team filled in; any other type raises ValueError
GitHubActionsService_generate_workflow_config(service_name, team, service_type) ==
  IF service_type \in WorkflowTypes
  THEN [workflow |-> service_type, SERVICE_NAME |-> service_name, TEAM |-> team]
  ELSE [raised |-> "ValueError"]

\* TerraformService._generate_cost_optimized_config: provider and tags, and
\* a "resource" block only for api, web and worker
TerraformService_generate_cost_optimized_config(service_name, service_type, environment) ==
  LET config == [region |-> aws_region, Environment |-> environment,
                 Service |-> service_name] IN
  IF service_type \in {"api", "web", "worker"}
  THEN [f \in DOMAIN config \cup {"resource"} |->
          IF f = "resource" THEN <<service_type, service_name, environment>> ELSE config[f]]
  ELSE config

\* KubernetesService._generate_manifests: namespace, deployment, service,
\* an ingress for web services, configmap, autoscaler
KubernetesService_generate_manifests(service_name, service_type, environment) ==
  <<[kind |-> "Namespace", name |-> k8s_namespace],
    [kind |-> "Deployment", name |-> service_name, type |-> service_type,
     environment |-> environment, registry |-> container_registry_url]>>
  \o <<[kind |-> "Service", name |-> service_name, environment |-> environment]>>
  \o (IF service_type = "web"
      THEN <<[kind |-> "Ingress", name |-> service_name, environment |-> environment]>>
      ELSE << >>)
  \o <<[kind |-> "ConfigMap", name |-> service_name, environment |-> environment],
       [kind |-> "HorizontalPodAutoscaler", name |-> service_name,
        environment |-> environment]>>

Generators == {"workflow", "terraform", "manifests"}

\* what generator g returns for a name, a team or environment, and a type
Generated(g, service_name, other, service_type) ==
  CASE g = "workflow" ->
         GitHubActionsService_generate_workflow_config(service_name, other, service_type)
    [] g = "terraform" ->
         TerraformService_generate_cost_optimized_config(service_name, service_type, other)
    [] g = "manifests" ->
         KubernetesService_generate_manifests(service_name, service_type, other)

\* a caller asks a generator for a document
call_generator(r, g, service_name, other, service_type) ==
  /\ Free(r)
  /\ reqs' = Start(reqs, r, [kind |-> "generate", pc |-> "again", key |-> g,
                             name |-> service_name, other |-> other,
                             service_type |-> service_type, at |-> now,
                             first |-> Generated(g, service_name, other, service_type)])
  /\ UNCHANGED <<services, deployments, trackerVars>>

\* and asks again with the same arguments
call_generator_again(r) ==
  /\ At(r, "generate", "again")
  /\ LET q == reqs[r] IN
     reqs' = [reqs EXCEPT ![r] =
                [kind |-> "generate", pc |-> "done", key |-> q.key, name |-> q.name,
                 other |-> q.other, service_type |-> q.service_type, at |-> q.at,
                 first |-> q.first,
                 second |-> Generated(q.key, q.name, q.other, q.service_type)]]
  /\ UNCHANGED <<services, deployments, trackerVars>>

NextGenerate ==
  \/ \E r \in OrchestrationSlots :
       \/ \E g \in Generators, n \in OrchNames, t \in ServiceType :
            \E o \in (IF g = "workflow" THEN {"t", "u"} ELSE {"dev", "prod"}) :
              call_generator(r, g, n, o, t)
       \/ call_generator_again(r)
       \/ Respond(r)
  \/ Tick

SpecGenerate == Init /\ [][NextGenerate]_vars

\* ------------------------------------------------- orchestrator properties
\* a provision_service call on an existing Service has ended; its response
\* is in slot r
ProvisionEnded(r) ==
  /\ reqs[r].kind = "provision_service"
  /\ reqs[r].pc = "done"
  /\ reqs[r].present

AllFlagsFalse == [provision_cicd |-> FALSE, provision_infrastructure |-> FALSE,
                  provision_monitoring |-> FALSE]

SubStatusFields == {"cicd_status", "infrastructure_status", "monitoring_status"}

FailedResults == {"done_err", "done_errV"}

\* C1: provision_service on an existing Service with all three flags false
\* ends with the Service's status "running", leaves cicd_status,
\* infrastructure_status and monitoring_status as they were, and makes no
\* call to the GitHub, Terraform or Kubernetes adapters.
C1_NothingEnabledRuns ==
  \A r \in Slots :
    (ProvisionEnded(r) /\ reqs[r].cfg = AllFlagsFalse) =>
       /\ reqs[r].sid \in DOMAIN services
       /\ services[reqs[r].sid].status = "running"
       /\ \A f \in SubStatusFields : services[reqs[r].sid][f] = reqs[r].orig[f]
       /\ reqs[r].calls = {}
       /\ reqs[r].exc = "none"

\* an all-flags-false provision of a Service whose infrastructure had failed
\* before: it is "running" and the old "failed" sub-status is still there
C1_Witness ==
  \E r \in Slots :
    /\ ProvisionEnded(r) /\ reqs[r].cfg = AllFlagsFalse
    /\ reqs[r].orig.status = "failed"
    /\ reqs[r].orig.infrastructure_status = "failed"
    /\ services[reqs[r].sid].status = "running"
    /\ services[reqs[r].sid].infrastructure_status = "failed"

\* C2: whatever the flags, if at least one enabled sub-step raised, the
\* Service's stored status ends at "failed" and the provision_service call
\* itself raises.
C2_AnyFailureFails ==
  \A r \in Slots :
    (ProvisionEnded(r) /\ \E k \in SubSteps : reqs[r].sub[k] \in FailedResults) =>
       /\ reqs[r].sid \in DOMAIN services
       /\ services[reqs[r].sid].status = "failed"
       /\ reqs[r].exc # "none"
       /\ reqs[r].code # 200

\* all three sub-steps enabled, two succeeded and the infrastructure one
\* raised: the Service is "failed" and the call raised
C2_Witness ==
  \E r \in Slots :
    /\ ProvisionEnded(r)
    /\ reqs[r].sub = [cicd |-> "done_ok", infra |-> "done_err", mon |-> "done_ok"]
    /\ services[reqs[r].sid].status = "failed"
    /\ reqs[r].exc = "Exception"

\* sub-step k of the request in slot r is enabled by the request's flags
SubStepEnabled(r, k) ==
  CASE k = "cicd" -> reqs[r].cfg.provision_cicd
    [] k = "infra" -> reqs[r].cfg.provision_infrastructure
    [] k = "mon" -> reqs[r].cfg.provision_monitoring

\* C3: provision_service commits status "provisioning" before any enabled
\* sub-step starts, and decides the final status only after every enabled
\* sub-step has finished: a sub-step that fails does not cancel or cut short
\* its siblings.
C3_ProvisioningThenAllSubSteps ==
  \A r \in Slots :
    reqs[r].kind = "provision_service" /\ reqs[r].present =>
      /\ reqs[r].pc = "set_provisioning" =>
           /\ reqs[r].calls = {}
           /\ \A k \in SubSteps : reqs[r].sub[k] = "off"
           /\ \A f \in SubStatusFields : services[reqs[r].sid][f] = reqs[r].orig[f]
      /\ reqs[r].pc = "gather" => services[reqs[r].sid].status = "provisioning"
      /\ reqs[r].pc = "done" =>
           \A k \in SubSteps :
             reqs[r].sub[k] \in (IF SubStepEnabled(r, k) THEN {"done_ok"} \cup FailedResults
                                 ELSE {"off"})

\* the CI/CD sub-step has failed, the infrastructure one has not run yet,
\* and the stored status is still "provisioning"
C3_Witness ==
  \E r \in Slots :
    /\ reqs[r].kind = "provision_service" /\ reqs[r].pc = "gather"
    /\ reqs[r].sub.cicd = "done_err"
    /\ reqs[r].sub.infra = "todo"
    /\ services[reqs[r].sid].status = "provisioning"
    /\ services[reqs[r].sid].cicd_status = "failed"

\* C4: when provision_service ends, each enabled sub-step that succeeded has
\* its sub-status at "configured" (CI/CD), "provisioned" (infrastructure) or
\* "configured" (monitoring), each enabled sub-step that failed has its
\* sub-status at "failed", and the sub-status of a disabled sub-step is
\* unchanged.
C4_SubStatusesTellTheOutcome ==
  \A r \in Slots :
    ProvisionEnded(r) =>
      /\ reqs[r].sid \in DOMAIN services
      /\ LET row == services[reqs[r].sid]
             sub == reqs[r].sub
             Tells(k, f, okval) ==
               /\ sub[k] = "done_ok" => row[f] = okval
               /\ sub[k] \in FailedResults => row[f] = "failed"
               /\ sub[k] = "off" => row[f] = reqs[r].orig[f]
               /\ sub[k] \in {"done_ok", "off"} \cup FailedResults
         IN /\ Tells("cicd", "cicd_status", "configured")
            /\ Tells("infra", "infrastructure_status", "provisioned")
            /\ Tells("mon", "monitoring_status", "configured")

\* one sub-step succeeded, one failed and one was disabled on a Service that
\* had never been provisioned
C4_Witness ==
  \E r \in Slots :
    /\ ProvisionEnded(r)
    /\ reqs[r].sub = [cicd |-> "done_err", infra |-> "done_ok", mon |-> "off"]
    /\ services[reqs[r].sid].cicd_status = "failed"
    /\ services[reqs[r].sid].infrastructure_status = "provisioned"
    /\ services[reqs[r].sid].monitoring_status = "not_configured"

\* C5: delete_service on an existing Service removes the record and reports
\* success whatever the Kubernetes and Terraform cleanup calls return or
\* raise, and the record is removed only after both cleanup calls have
\* finished.
C5_DeleteDespiteCleanup ==
  \A r \in Slots :
    reqs[r].kind = "delete_service" /\ reqs[r].present =>
      /\ reqs[r].pc = "cleanup" => reqs[r].sid \in DOMAIN services
      /\ reqs[r].pc = "done" =>
           /\ reqs[r].sid \notin DOMAIN services
           /\ reqs[r].code = 200
           /\ reqs[r].changed
           /\ reqs[r].calls = {"kubernetes", "terraform"}
           /\ reqs[r].k8s # "todo" /\ reqs[r].tf # "todo"

\* both cleanup calls ended in an error and the Service is gone all the same
C5_Witness ==
  \E r \in Slots :
    /\ reqs[r].kind = "delete_service" /\ reqs[r].pc = "done" /\ reqs[r].present
    /\ reqs[r].k8s = "error" /\ reqs[r].tf = "error"
    /\ reqs[r].sid \notin DOMAIN services
    /\ reqs[r].code = 200

\* --------------------------------------------------- entity store properties
\* the handler of one of `kinds` has answered in slot r
Answered(r, kinds) == reqs[r].pc = "done" /\ reqs[r].kind \in kinds

\* C6: both Service create routes, POST /services/ and POST
\* /services/from-template/{template_name} with a template that exists,
\* answer a request whose name is already present with 400 and leave the
\* store unchanged.
C6_DuplicateServiceNameIs400 ==
  \A r \in Slots :
    (/\ Answered(r, {"create_service", "create_service_from_template"})
     /\ reqs[r].present
     /\ reqs[r].code # 404) =>
       /\ reqs[r].code = 400
       /\ ~reqs[r].changed

\* C7: POST /deployments/ with a name that is already present in the store
\* when the handler looks it up is rejected with 400 and leaves the store
\* unchanged.
C7_DuplicateDeploymentNameIs400 ==
  \A r \in Slots :
    (Answered(r, {"create_deployment"}) /\ reqs[r].present) =>
       /\ reqs[r].code = 400
       /\ ~reqs[r].changed

\* a second Deployment was asked for under the name of a stored one, and
\* there is still one Deployment of that name
C7_Witness ==
  \E r \in Slots :
    /\ Answered(r, {"create_deployment"}) /\ reqs[r].present
    /\ reqs[r].code = 400
    /\ Cardinality(ByName(deployments, reqs[r].key)) = 1

\* C8: read, update and delete by an id that does not exist answer 404 for
\* Service and for Deployment and leave the store unchanged, and the Service
\* delete makes no cleanup call.
C8_MissingIdIs404 ==
  \A r \in Slots :
    (/\ Answered(r, {"read_service", "update_service", "delete_service",
                     "read_deployment", "update_deployment", "delete_deployment"})
     /\ ~reqs[r].present) =>
       /\ reqs[r].code = 404
       /\ ~reqs[r].changed
       /\ reqs[r].calls = {}

\* a Service delete by an id that is not stored, beside a stored Service
C8_Witness ==
  \E r \in Slots :
    /\ Answered(r, {"delete_service"}) /\ ~reqs[r].present
    /\ reqs[r].key \notin DOMAIN services
    /\ services # EmptyTable
    /\ reqs[r].code = 404

\* C9: POST /services/ with a name not yet in the store succeeds and stores a
\* Service with status "pending", cicd_status "not_configured",
\* infrastructure_status "not_provisioned" and monitoring_status
\* "not_configured"; no adapter call happens at creation.
C9_CreateStoresPendingService ==
  \A r \in Slots :
    (Answered(r, {"create_service"}) /\ ~reqs[r].present) =>
       /\ reqs[r].code \in {200, 201}
       /\ reqs[r].calls = {}
       /\ \E i \in DOMAIN services :
            /\ services[i].name = reqs[r].key
            /\ services[i].status = "pending"
            /\ services[i].cicd_status = "not_configured"
            /\ services[i].infrastructure_status = "not_provisioned"
            /\ services[i].monitoring_status = "not_configured"

\* C10: at every moment the names of the stored Services are pairwise
\* distinct and so are the names of the stored Deployments, under any
\* interleaving of create, create-from-template and update requests.
C10_NamesUnique ==
  /\ \A i, j \in DOMAIN services : i # j => services[i].name # services[j].name
  /\ \A i, j \in DOMAIN deployments : i # j => deployments[i].name # deployments[j].name

\* two Services are stored and renaming one to the name of the other has
\* just been refused
C10_Witness ==
  \E r \in Slots :
    /\ Answered(r, {"update_service"}) /\ reqs[r].present
    /\ reqs[r].code = 500
    /\ Cardinality(DOMAIN services) = 2

\* ----------------------------------------------- operation tracker properties
StartKinds == {"provision_infrastructure", "destroy_infrastructure"}

\* C11: a GET /infrastructure/operations/{id} issued right after POST
\* /infrastructure/provision or POST /infrastructure/destroy returned that id
\* (its background work has not finished) finds the operation and reports
\* status "running".
C11_StatusAfterStartIsRunning ==
  \A r \in Slots :
    (/\ Answered(r, {"get_operation_status"})
     /\ reqs[r].key \in DOMAIN tasks
     /\ tasks[reqs[r].key].pc # "returned") =>
       /\ reqs[r].code = 200
       /\ reqs[r].body.status = "running"

\* C12: POST /infrastructure/provision and POST /infrastructure/destroy answer
\* with the operation id and status "started" before the Terraform call has
\* been made, so the answer is the same whatever the background work ends
\* with; from then on the work only moves forward, in steps of its own that
\* no request takes part in, and no request takes it back or removes it.
C12_StartedWithoutWaiting ==
  /\ [](\A r \in Slots :
          Answered(r, StartKinds) =>
            /\ reqs[r].code = 200
            /\ reqs[r].status = "started"
            /\ reqs[r].operation_id \in DOMAIN tasks
            /\ tasks[reqs[r].operation_id].pc = "scheduled"
            /\ reqs[r].operation_id \notin DOMAIN instances[reqs[r].operation_id])
  /\ [][\A op \in DOMAIN tasks :
          /\ op \in DOMAIN tasks'
          /\ LET TaskRank(pc) == CASE pc = "scheduled" -> 0
                                   [] pc = "awaiting" -> 1
                                   [] pc = "returned" -> 2
             IN  TaskRank(tasks'[op].pc) >= TaskRank(tasks[op].pc)
          /\ tasks'[op] # tasks[op] => reqs' = reqs]_vars

\* an operation was answered "started" and has ended "failed" since
C12_Witness ==
  \E op \in DOMAIN tasks :
    /\ tasks[op].pc = "returned"
    /\ instances[op][op].status = "failed"
    /\ \A r \in Slots : reqs[r].pc = "idle"

\* C13: provision_infrastructure_async and destroy_infrastructure_async never
\* raise: an exception from the Terraform call ends the operation "failed"
\* with the exception's message as error, a result other than success ends it
\* "failed" with the result's message as error; get, list and sweep never
\* raise either.
C13_TrackerNeverRaises ==
  /\ \A op \in DOMAIN tasks :
       /\ ~tasks[op].raised
       /\ (tasks[op].pc = "returned" /\ op \in DOMAIN instances[tasks[op].inst]) =>
            LET rec == instances[tasks[op].inst][op]
                res == tasks[op].res
            IN /\ res.kind = "raise" =>
                    rec.status = "failed" /\ rec.error = res.message
               /\ (res.kind = "return" /\ res.status # "success") =>
                    /\ rec.status = "failed"
                    /\ res.message # Unset => rec.error = res.message
               /\ (res.kind = "return" /\ res.status = "success") =>
                    rec.status = "completed" /\ rec.error = "None"
  /\ \A r \in Slots :
       Answered(r, {"InfrastructureService.get_operation_status",
                    "InfrastructureService.list_operations",
                    "InfrastructureService.cleanup_completed_operations"}) =>
         ~reqs[r].raised

\* a destroy whose Terraform call raised, and a sweep run over its record
C13_Witness ==
  \E op \in DOMAIN tasks, r \in Slots :
    /\ tasks[op].call = "destroy" /\ tasks[op].pc = "returned"
    /\ tasks[op].res.kind = "raise"
    /\ op \in DOMAIN instances[SharedInstance]
    /\ instances[SharedInstance][op].error = "boom"
    /\ Answered(r, {"InfrastructureService.cleanup_completed_operations"})

\* C14: cleanup_completed_operations(h) removes exactly the records whose
\* status is completed or failed and whose completion time is more than h
\* hours before now, leaves every running record and every younger completed
\* or failed record as it was, and returns the number of records it removed.
C14_SweepRemovesTheOld ==
  \A r \in Slots :
    Answered(r, {"InfrastructureService.cleanup_completed_operations"}) =>
      LET before == reqs[r].before
          old == {id \in DOMAIN before :
                    /\ before[id].status \in {"completed", "failed"}
                    /\ now - before[id].completed_at > reqs[r].key * TicksPerHour}
      IN /\ DOMAIN instances[SharedInstance] = DOMAIN before \ old
         /\ \A id \in DOMAIN before \ old : instances[SharedInstance][id] = before[id]
         /\ reqs[r].count = Cardinality(old)

\* a sweep that took one record and left one that was exactly h hours old
C14_Witness ==
  \E r \in Slots :
    /\ Answered(r, {"InfrastructureService.cleanup_completed_operations"})
    /\ reqs[r].count = 1
    /\ reqs[r].key = 1
    /\ \E id \in DOMAIN instances[SharedInstance] :
         /\ instances[SharedInstance][id].status = "completed"
         /\ now - instances[SharedInstance][id].completed_at = TicksPerHour

\* C15: each operation id is driven by one background task that is never
\* resumed or retried; its record's status only moves from "running" to
\* "completed" or from "running" to "failed", and a completed or failed
\* record is never changed again: it can only be removed, by a sweep.
C15_OneWayStatus ==
  [][/\ \A op \in DOMAIN tasks :
          /\ op \in DOMAIN tasks'
          /\ tasks'[op].inst = tasks[op].inst
          /\ tasks[op].pc = "returned" => tasks'[op] = tasks[op]
     /\ \A i \in DOMAIN instances : \A op \in DOMAIN instances[i] :
          LET rec == instances[i][op] IN
          IF op \in DOMAIN instances'[i]
          THEN \/ instances'[i][op] = rec
               \/ /\ rec.status = "running"
                  /\ instances'[i][op].status \in {"completed", "failed"}
                  /\ tasks[op].pc = "awaiting" /\ tasks'[op].pc = "returned"
          ELSE /\ rec.status \in {"completed", "failed"}
               /\ \E r \in Slots :
                    /\ reqs[r].pc = "idle"
                    /\ reqs'[r].pc = "done"
                    /\ reqs'[r].kind \in {"cleanup_operations",
                         "InfrastructureService.cleanup_completed_operations"}]_vars

\* both operations have ended, one completed and one failed
C15_Witness ==
  /\ DOMAIN tasks = OperationIds
  /\ \A op \in DOMAIN tasks : tasks[op].pc = "returned"
  /\ \E a, b \in DOMAIN tasks :
       /\ instances[a][a].status = "completed"
       /\ instances[b][b].status = "failed"

\* ------------------------------------------------------ further properties
\* C16: POST /services/{id}/provision answers 404 only when no Service with
\* that id exists, and then changes no record and calls no adapter; every
\* failure of a provisioning sub-step of an existing Service is answered 500.
C16_NotFoundOnlyWhenMissing ==
  \A r \in Slots :
    Answered(r, {"provision_service"}) =>
      /\ reqs[r].code = 404 =>
           /\ ~reqs[r].present
           /\ ~reqs[r].changed
           /\ reqs[r].calls = {}
      /\ (reqs[r].present /\ \E k \in SubSteps : reqs[r].sub[k] \in FailedResults) =>
           reqs[r].code = 500

C19_TriggerSetsRunning ==
  /\ [](\A r \in Slots :
         (Answered(r, {"trigger_deployment"}) /\ reqs[r].present) =>
           /\ reqs[r].code = 200
           /\ reqs[r].status = "running"
           /\ reqs[r].key \in DOMAIN reqs[r].before =>
                /\ reqs[r].key \in DOMAIN deployments
                /\ deployments[reqs[r].key].status = "running")
  /\ [][\A id \in DOMAIN deployments \cap DOMAIN deployments' :
          deployments'[id].status # deployments[id].status =>
            \E r \in Slots :
              /\ reqs[r].pc # "done"
              /\ reqs'[r].pc = "done"
              /\ reqs'[r].kind \in {"update_deployment", "trigger_deployment"}
              /\ reqs'[r].key = id]_vars

\* a deployment that had completed is triggered and is running again
C19_Witness ==
  \E r \in Slots :
    /\ Answered(r, {"trigger_deployment"})
    /\ reqs[r].code = 200
    /\ reqs[r].key \in DOMAIN reqs[r].before
    /\ reqs[r].before[reqs[r].key].status = "completed"
    /\ deployments[reqs[r].key].status = "running"

\* C20: the status of every stored deployment is one of pending, running,
\* completed, failed.
C20_StatusIsOneOfFour ==
  \A id \in DOMAIN deployments : deployments[id].status \in {"pending", "running", "completed", "failed"}

\* C18: a provision call for a service is taken up while another call for
\* the same service is under way, and its answer depends on its own
\* sub-steps only; when a call ends, the stored status of the service is
\* the one that call wrote ("running" if none of its sub-steps failed,
\* "failed" otherwise), whatever another call wrote before, and a stored
\* status becomes "running" or "failed" only in the step in which a call for
\* that service ends.
C18_LastCommitWins ==
  /\ [](\A r \in Slots :
         (Answered(r, {"provision_service"}) /\ reqs[r].present) =>
           /\ reqs[r].code \in {200, 404, 500}
           /\ (reqs[r].code = 200) = (\A k \in SubSteps : reqs[r].sub[k] \notin FailedResults)
           /\ reqs[r].key \in DOMAIN services
           /\ services[reqs[r].key].status =
                IF reqs[r].code = 200 THEN "running" ELSE "failed")
  /\ [][/\ \A r \in Slots :
            (/\ reqs[r].pc = "idle"
             /\ reqs'[r].kind = "provision_service"
             /\ reqs'[r].key \in DOMAIN services) => reqs'[r].pc = "set_provisioning"
        /\ \A sid \in DOMAIN services \cap DOMAIN services' :
            (/\ services'[sid].status # services[sid].status
             /\ services'[sid].status \in {"running", "failed"}) =>
               \E r \in Slots :
                 /\ reqs[r].kind = "provision_service"
                 /\ reqs[r].pc = "gather"
                 /\ reqs'[r].pc = "done"
                 /\ reqs'[r].key = sid]_vars

\* a call without the CI/CD step began while another call was under way,
\* that other call failed its CI/CD step and ended, and this call ends
\* last: the stored status is "running"
C18_Witness ==
  \E r \in Slots :
    /\ Answered(r, {"provision_service"})
    /\ reqs[r].code = 200
    /\ ~reqs[r].cfg.provision_cicd
    /\ reqs[r].orig.status = "provisioning"
    /\ reqs[r].orig.cicd_status = DefaultCicdStatus
    /\ services[reqs[r].key].cicd_status = "failed"
    /\ services[reqs[r].key].status = "running"
    /\ \A q \in Slots \ {r} : reqs[q].pc = "idle"

C22_DeleteCleansEverything ==
  \A r \in Slots :
    (Answered(r, {"delete_service"}) /\ reqs[r].present /\ reqs[r].changed) =>
      {"github", "terraform", "kubernetes", "monitoring"} \subseteq reqs[r].calls

C25_CreatedIs201 ==
  \A r \in Slots :
    (Answered(r, {"create_deployment"}) /\ reqs[r].changed) => reqs[r].code = 201

\* C26: the workflow generator has a branch for api, web and worker only: a
\* provision with CI/CD enabled of a service of one of these types calls
\* GitHub, and one of a service of type database or cache fails before any
\* call to GitHub and leaves cicd_status "failed" and the status "failed".
C26_NoWorkflowNoGithub ==
  \A r \in Slots :
    (Answered(r, {"provision_service"}) /\ reqs[r].present /\ reqs[r].cfg.provision_cicd) =>
      IF reqs[r].orig.service_type \in {"api", "web", "worker"}
      THEN /\ "github" \in reqs[r].calls
           /\ reqs[r].sub.cicd # "done_errV"
      ELSE /\ "github" \notin reqs[r].calls
           /\ reqs[r].sub.cicd = "done_errV"
           /\ services[reqs[r].sid].cicd_status = "failed"
           /\ services[reqs[r].sid].status = "failed"

\* a database service was provisioned with CI/CD and monitoring: monitoring
\* is configured, CI/CD and the service have failed
C26_Witness ==
  \E r \in Slots :
    /\ Answered(r, {"provision_service"})
    /\ reqs[r].present
    /\ reqs[r].cfg.provision_cicd /\ reqs[r].cfg.provision_monitoring
    /\ reqs[r].orig.service_type = "database"
    /\ reqs[r].calls = {}
    /\ services[reqs[r].sid].monitoring_status = "configured"
    /\ services[reqs[r].sid].cicd_status = "failed"
    /\ services[reqs[r].sid].status = "failed"

\* C27: in the infrastructure sub-step Kubernetes is asked only after
\* Terraform returned success; when Terraform returns an error, Kubernetes
\* is not asked, infrastructure_status becomes "failed" and deployment_url
\* stays what it was; infrastructure_status becomes "provisioned", and
\* deployment_url is set, exactly when both returned success.
C27_KubernetesAfterTerraform ==
  \A r \in Slots :
    (/\ reqs[r].kind = "provision_service"
     /\ reqs[r].present
     /\ reqs[r].sub.infra \in {"done_ok", "done_err"}) =>
      LET q == reqs[r]
          row == services[q.sid]
          both == /\ q.results.terraform = "success"
                  /\ "kubernetes" \in DOMAIN q.results
                  /\ q.results.kubernetes = "success"
      IN  /\ "terraform" \in DOMAIN q.results
          /\ "kubernetes" \in DOMAIN q.results => q.results.terraform = "success"
          /\ ("kubernetes" \in q.calls) = ("kubernetes" \in DOMAIN q.results)
          /\ q.results.terraform = "error" =>
               /\ "kubernetes" \notin q.calls
               /\ row.infrastructure_status = "failed"
               /\ row.deployment_url = q.orig.deployment_url
          /\ (row.infrastructure_status = "provisioned") = both
          /\ row.infrastructure_status \in {"provisioned", "failed"}
          /\ row.deployment_url = IF both THEN DeploymentUrl(q.orig.name)
                                   ELSE q.orig.deployment_url

\* a service that was provisioned before is provisioned again and Terraform
\* returns an error: Kubernetes is not asked and the old URL stays
C27_Witness ==
  \E r \in Slots :
    /\ Answered(r, {"provision_service"})
    /\ reqs[r].present
    /\ reqs[r].sub.infra = "done_err"
    /\ reqs[r].results.terraform = "error"
    /\ reqs[r].calls = {"terraform"}
    /\ reqs[r].orig.deployment_url # NoUrl
    /\ services[reqs[r].sid].deployment_url = reqs[r].orig.deployment_url
    /\ services[reqs[r].sid].infrastructure_status = "failed"

\* C28: when every enabled sub-step comes to an end, a provision call of a
\* stored service comes to an end, and the stored status is then "running"
\* if every enabled sub-step succeeded and "failed" otherwise, never
\* "provisioning".
ProvisionedOrFailed(r) ==
  /\ Answered(r, {"provision_service"})
  /\ reqs[r].present
  /\ services[reqs[r].sid].status =
       IF \A k \in SubSteps : reqs[r].sub[k] \in {"off", "done_ok"}
       THEN "running" ELSE "failed"

C28_ProvisionTerminates ==
  /\ \A r \in OrchestrationSlots :
       (/\ reqs[r].kind = "provision_service"
        /\ reqs[r].pc \in {"set_provisioning", "gather"}) ~> ProvisionedOrFailed(r)
  /\ [](\A r \in OrchestrationSlots :
         (Answered(r, {"provision_service"}) /\ reqs[r].present) =>
           /\ ProvisionedOrFailed(r)
           /\ \A k \in SubSteps : (reqs[r].sub[k] = "off") = ~SubStepEnabled(r, k))

\* a call with all three sub-steps enabled has come to an end with one of
\* them failed
C28_Witness ==
  \E r \in OrchestrationSlots :
    /\ ProvisionedOrFailed(r)
    /\ \A k \in SubSteps : reqs[r].sub[k] # "off"
    /\ reqs[r].sub.infra = "done_err"
    /\ reqs[r].sub.mon = "done_ok"
    /\ services[reqs[r].sid].status = "failed"

\* C29: the status of every stored service is one of pending, provisioning,
\* running, failed; no request stores "deprecated".
C29_NeverDeprecated ==
  \A i \in DOMAIN services : services[i].status \in {"pending", "provisioning", "running", "failed"}

\* an update whose body asks for status "deprecated" was accepted and
\* changed the service, which is still running
C29_Witness ==
  \E r \in Slots :
    /\ Answered(r, {"update_service"})
    /\ reqs[r].code = 200
    /\ reqs[r].changed
    /\ reqs[r].body.status = "deprecated"
    /\ reqs[r].before[reqs[r].key].status = "running"
    /\ services[reqs[r].key].status = "running"

\* C30: in every operation map a record has a completion time exactly when
\* its status is completed or failed, and every record has a start time that
\* is not later than now nor than its completion time; so a sweep never
\* finds a completed or failed record without a completion time.
C30_CompletedAtIffTerminal ==
  /\ \A i \in DOMAIN instances : \A op \in DOMAIN instances[i] :
       LET rec == instances[i][op] IN
       /\ rec.completed_at # NoTime <=> rec.status \in {"completed", "failed"}
       /\ rec.started_at \in 0..now
       /\ rec.completed_at # NoTime => rec.completed_at \in rec.started_at..now
  /\ \A r \in Slots :
       Answered(r, {"cleanup_operations",
                    "InfrastructureService.cleanup_completed_operations"}) =>
         /\ ~reqs[r].raised
         /\ \A id \in DOMAIN reqs[r].before :
              Terminal(reqs[r].before[id]) => reqs[r].before[id].completed_at # NoTime

\* a sweep that met a running record started at time 0 and a failed record
\* that started and ended later
C30_Witness ==
  \E r \in Slots :
    /\ Answered(r, {"InfrastructureService.cleanup_completed_operations"})
    /\ \E a, b \in DOMAIN reqs[r].before :
         /\ reqs[r].before[a].status = "running"
         /\ reqs[r].before[a].started_at = 0
         /\ reqs[r].before[b].status = "failed"
         /\ reqs[r].before[b].started_at > 0
         /\ reqs[r].before[b].completed_at > reqs[r].before[b].started_at

====
